---- MODULE Spec2Model ----
(***************************************************************************)
(* Academic progression engine of the student controller:                  *)
(* promoteStudentsToNextSemester and rollbackStudents, run as request      *)
(* handlers over a transactional document store.                           *)
(*                                                                         *)
(* JavaScript strings are sequences of one-character strings, so that      *)
(* parseInt, toString, split and slice are computed character by           *)
(* character.  A JavaScript number is a record [nan, val].                 *)
(***************************************************************************)
EXTENDS Integers, Sequences, FiniteSets, TLC

(* ------------------------------ bounds -------------------------------- *)
\* number of requests the server receives in one behaviour
MaxReqs == 2
\* longest studentIds array of a request body
MaxIds == 2
\* No_of_Sem of the one course document of the catalog
TotalSem == 4
\* longest run of promotions of a round trip
MaxTrip == 4

(* ----------------------------- universe ------------------------------- *)
\* handler activations that may be in flight at the same time
Slots == {"h1", "h2"}
\* _id of the student documents of the collection
Ids == {"s1", "s2"}
\* an _id that no student document has
GhostId == "s9"
\* Course_Id with a course document / without one
KnownCourse == "MCA"
LostCourse == "MBA"

VARIABLES db, courses, pc, req, students, idx, applied, skipped, staged,
          txn, status, started

vars == <<db, courses, pc, req, students, idx, applied, skipped, staged,
          txn, status, started>>

(* ------------------------- JavaScript numbers ------------------------- *)
NaN == [nan |-> TRUE, val |-> 0]
Num(n) == [nan |-> FALSE, val |-> n]
isNaN(x) == x.nan
\* x + k
Plus(x, k) == IF x.nan THEN NaN ELSE Num(x.val + k)
\* a % 2 === 0 ; the remainder of JavaScript takes the sign of the dividend
JsRem(a, b) == IF a >= 0 THEN a % b ELSE 0 - ((0 - a) % b)
IsEven(x) == (~x.nan) /\ JsRem(x.val, 2) = 0

(* ------------------------- JavaScript strings ------------------------- *)
Digits == <<"0", "1", "2", "3", "4", "5", "6", "7", "8", "9">>
IsDigit(c) == \E k \in 1..10 : Digits[k] = c
DigitVal(c) == (CHOOSE k \in 1..10 : Digits[k] = c) - 1

RECURSIVE StripWs(_)
StripWs(s) == IF s # <<>> /\ Head(s) = " " THEN StripWs(Tail(s)) ELSE s

RECURSIVE DigitRun(_)
DigitRun(s) ==
  IF s # <<>> /\ IsDigit(Head(s)) THEN <<Head(s)>> \o DigitRun(Tail(s)) ELSE <<>>

RECURSIVE DigitsValue(_, _)
DigitsValue(s, acc) ==
  IF s = <<>> THEN acc ELSE DigitsValue(Tail(s), acc * 10 + DigitVal(Head(s)))

\* parseInt(str, 10)
parseInt(str) ==
  LET t == StripWs(str)
      neg == t # <<>> /\ Head(t) = "-"
      u == IF t # <<>> /\ Head(t) \in {"-", "+"} THEN Tail(t) ELSE t
      d == DigitRun(u)
  IN IF d = <<>> THEN NaN
     ELSE Num(IF neg THEN 0 - DigitsValue(d, 0) ELSE DigitsValue(d, 0))

RECURSIVE NatToString(_)
NatToString(n) ==
  IF n < 10 THEN <<Digits[n + 1]>>
  ELSE NatToString(n \div 10) \o <<Digits[(n % 10) + 1]>>

\* x.toString() and the `${x}` of a template
toString(x) ==
  IF x.nan THEN <<"N", "a", "N">>
  ELSE IF x.val < 0 THEN <<"-">> \o NatToString(0 - x.val)
  ELSE NatToString(x.val)

\* const [start] = str.split("-")
RECURSIVE splitFirst(_)
splitFirst(s) ==
  IF s = <<>> \/ Head(s) = "-" THEN <<>> ELSE <<Head(s)>> \o splitFirst(Tail(s))

\* the suffix written without the slice
sliceWhole(s) == s

\* str.slice(-2)
sliceLast2(s) == IF Len(s) <= 2 THEN s ELSE SubSeq(s, Len(s) - 1, Len(s))

(* ----------------------- year-label arithmetic ------------------------ *)
\* the promotion label with the suffix taken from the new start year itself
nextAcademicYearSameSuffix(academicYear) ==
  LET start == splitFirst(academicYear)
      newStart == Plus(parseInt(start), 1)
  IN toString(newStart) \o <<"-">> \o sliceLast2(toString(newStart))

\* promote: the label written when the current semester is even
nextAcademicYear(academicYear) ==
  LET start == splitFirst(academicYear)
      newStart == Plus(parseInt(start), 1)
  IN toString(newStart) \o <<"-">> \o sliceLast2(toString(Plus(newStart, 1)))

\* the reset label computed without the + 1
resetAcademicYearNoStep(academicYear) ==
  LET startYear == splitFirst(academicYear)
      nextStart == parseInt(startYear)
  IN toString(nextStart) \o <<"-">> \o sliceLast2(toString(Plus(nextStart, 1)))

\* rollback, resetAttendance === true: the label always written
resetAcademicYear(academicYear) ==
  LET startYear == splitFirst(academicYear)
      nextStart == Plus(parseInt(startYear), 1)
  IN toString(nextStart) \o <<"-">> \o sliceLast2(toString(Plus(nextStart, 1)))

\* the rollback label computed with + 1, as the other two are
prevAcademicYearForward(academicYear) ==
  LET startYear == splitFirst(academicYear)
      prevStart == Plus(parseInt(startYear), 1)
  IN toString(prevStart) \o <<"-">> \o sliceLast2(toString(Plus(prevStart, 1)))

\* the rollback label with the suffix taken two years after the new start
prevAcademicYearSuffixAhead(academicYear) ==
  LET startYear == splitFirst(academicYear)
      prevStart == Plus(parseInt(startYear), 0 - 1)
  IN toString(prevStart) \o <<"-">> \o sliceLast2(toString(Plus(prevStart, 2)))

\* normal rollback: the label written when the current semester is even
prevAcademicYear(academicYear) ==
  LET startYear == splitFirst(academicYear)
      prevStart == Plus(parseInt(startYear), 0 - 1)
  IN toString(prevStart) \o <<"-">> \o sliceLast2(toString(Plus(prevStart, 1)))

(* ------------------------------ documents ----------------------------- *)
\* academicYear labels of the initial documents
Year2024 == <<"2", "0", "2", "4", "-", "2", "5">>
Year2099 == <<"2", "0", "9", "9", "-", "0", "0">>

Doc(semId, academicYear, courseId) ==
  [semId |-> semId, academicYear |-> academicYear, courseId |-> courseId]

\* the initial contents of the student collection.  The decision for a
\* student reads that student's document only, so the rosters pair the
\* kinds of document instead of crossing them: between them s1 and s2 hold
\* the semIds "0" to "3" and one that is no number (createStudent stores any
\* non-empty semId), an ordinary and an end-of-century label, and a courseId
\* with and without a course document; the final semester is reached by
\* promotion
Rosters ==
  { ("s1" :> Doc(<<"1">>, Year2024, KnownCourse)) @@
    ("s2" :> Doc(<<"2">>, Year2099, LostCourse)),
    ("s1" :> Doc(<<"2">>, Year2024, KnownCourse)) @@
    ("s2" :> Doc(<<"x">>, Year2099, KnownCourse)),
    ("s1" :> Doc(<<"3">>, Year2024, KnownCourse)) @@
    ("s2" :> Doc(<<"0">>, Year2099, KnownCourse)) }

\* the document as Student.find returns it
WithId(id, doc) ==
  [_id |-> id, semId |-> doc.semId, academicYear |-> doc.academicYear,
   courseId |-> doc.courseId]

\* { $set: payload } applied to a document
ApplySet(doc, payload) ==
  [f \in DOMAIN doc |-> IF f \in DOMAIN payload THEN payload[f] ELSE doc[f]]

\* the orders in which a cursor may deliver the documents of S
Orders(S) ==
  { o \in [1..Cardinality(S) -> S] :
      \A a, b \in 1..Cardinality(S) : a # b => o[a] # o[b] }

\* the ids of an array
Range(s) == { s[k] : k \in 1..Len(s) }

\* the ids in the order the request lists them
IdOrder == <<"s1", "s2", GhostId>>

RECURSIVE Listed(_, _)
Listed(S, k) ==
  IF k > Len(IdOrder) THEN <<>>
  ELSE (IF IdOrder[k] \in S THEN <<IdOrder[k]>> ELSE <<>>) \o Listed(S, k + 1)

\* req.body.studentIds: something that is not an array, or an array of at
\* most MaxIds distinct ids
Bodies ==
  { [isArray |-> FALSE, ids |-> <<>>] } \cup
  { [isArray |-> TRUE, ids |-> Listed(S, 1)] :
      S \in { T \in SUBSET (Ids \cup {GhostId}) : Cardinality(T) <= MaxIds } }

NoReq == [op |-> "none", studentIds |-> [isArray |-> FALSE, ids |-> <<>>],
          resetAttendance |-> FALSE]

(* ---------------------- per-student decisions ------------------------- *)
\* the promotion decision with the final-semester test written > for >=
PromoteDecisionPastFinal(student, crs) ==
  LET currentSem == parseInt(student.semId)
      nextSem == Plus(currentSem, 1)
      year == IF IsEven(currentSem)
              THEN nextAcademicYear(student.academicYear)
              ELSE student.academicYear
  IN IF student.courseId \notin DOMAIN crs
     THEN [kind |-> "skip",
           entry |-> [studentId |-> student._id, reason |-> "Course not found"]]
     ELSE IF isNaN(currentSem)
     THEN [kind |-> "skip",
           entry |-> [studentId |-> student._id, reason |-> "Invalid semester"]]
     ELSE IF currentSem.val > crs[student.courseId]
     THEN [kind |-> "skip",
           entry |-> [studentId |-> student._id, reason |-> "Final semester"]]
     ELSE [kind |-> "apply",
           set |-> [semId |-> toString(nextSem), academicYear |-> year],
           entry |-> [studentId |-> student._id, fromSem |-> currentSem.val,
                      toSem |-> nextSem.val, academicYear |-> year]]

\* body of the for loop of promoteStudentsToNextSemester, up to the write
PromoteDecision(student, crs) ==
  LET currentSem == parseInt(student.semId)
      nextSem == Plus(currentSem, 1)
      year == IF IsEven(currentSem)
              THEN nextAcademicYear(student.academicYear)
              ELSE student.academicYear
  IN IF student.courseId \notin DOMAIN crs
     THEN [kind |-> "skip",
           entry |-> [studentId |-> student._id, reason |-> "Course not found"]]
     ELSE IF isNaN(currentSem)
     THEN [kind |-> "skip",
           entry |-> [studentId |-> student._id, reason |-> "Invalid semester"]]
     ELSE IF currentSem.val >= crs[student.courseId]
     THEN [kind |-> "skip",
           entry |-> [studentId |-> student._id, reason |-> "Final semester"]]
     ELSE [kind |-> "apply",
           set |-> [semId |-> toString(nextSem), academicYear |-> year],
           entry |-> [studentId |-> student._id, fromSem |-> currentSem.val,
                      toSem |-> nextSem.val, academicYear |-> year]]

\* the rollback decision with the first-semester test written < for <=
RollbackDecisionBelowFirst(student, resetAttendance) ==
  LET currentSem == parseInt(student.semId)
      previousSem == toString(Plus(currentSem, 0 - 1))
      resetYear == resetAcademicYear(student.academicYear)
      updatePayload ==
        IF IsEven(currentSem)
        THEN [semId |-> previousSem,
              academicYear |-> prevAcademicYear(student.academicYear)]
        ELSE [semId |-> previousSem]
      yearTo ==
        IF "academicYear" \in DOMAIN updatePayload /\ updatePayload.academicYear # <<>>
        THEN updatePayload.academicYear
        ELSE student.academicYear
  IN IF isNaN(currentSem)
     THEN [kind |-> "skip",
           entry |-> [studentId |-> student._id, reason |-> "Invalid semester value"]]
     ELSE IF resetAttendance
     THEN [kind |-> "apply",
           set |-> [academicYear |-> resetYear],
           entry |-> [studentId |-> student._id, sem |-> student.semId,
                      academicYearFrom |-> student.academicYear,
                      academicYearTo |-> resetYear,
                      type |-> "RESET_YEAR_ONLY"]]
     ELSE IF currentSem.val < 1
     THEN [kind |-> "skip",
           entry |-> [studentId |-> student._id, reason |-> "Already in first semester"]]
     ELSE [kind |-> "apply",
           set |-> updatePayload,
           entry |-> [studentId |-> student._id, fromSem |-> student.semId,
                      toSem |-> previousSem,
                      academicYearFrom |-> student.academicYear,
                      academicYearTo |-> yearTo,
                      type |-> "NORMAL_ROLLBACK"]]

\* body of the for loop of rollbackStudents, up to the write
RollbackDecision(student, resetAttendance) ==
  LET currentSem == parseInt(student.semId)
      previousSem == toString(Plus(currentSem, 0 - 1))
      resetYear == resetAcademicYear(student.academicYear)
      updatePayload ==
        IF IsEven(currentSem)
        THEN [semId |-> previousSem,
              academicYear |-> prevAcademicYear(student.academicYear)]
        ELSE [semId |-> previousSem]
      yearTo ==
        IF "academicYear" \in DOMAIN updatePayload /\ updatePayload.academicYear # <<>>
        THEN updatePayload.academicYear
        ELSE student.academicYear
  IN IF isNaN(currentSem)
     THEN [kind |-> "skip",
           entry |-> [studentId |-> student._id, reason |-> "Invalid semester value"]]
     ELSE IF resetAttendance
     THEN [kind |-> "apply",
           set |-> [academicYear |-> resetYear],
           entry |-> [studentId |-> student._id, sem |-> student.semId,
                      academicYearFrom |-> student.academicYear,
                      academicYearTo |-> resetYear,
                      type |-> "RESET_YEAR_ONLY"]]
     ELSE IF currentSem.val <= 1
     THEN [kind |-> "skip",
           entry |-> [studentId |-> student._id, reason |-> "Already in first semester"]]
     ELSE [kind |-> "apply",
           set |-> updatePayload,
           entry |-> [studentId |-> student._id, fromSem |-> student.semId,
                      toSem |-> previousSem,
                      academicYearFrom |-> student.academicYear,
                      academicYearTo |-> yearTo,
                      type |-> "NORMAL_ROLLBACK"]]

(* --------------------------- the store -------------------------------- *)
\* Student.find({ _id: { $in: studentIds } }): the documents that exist
FindStudents(store, ids) == { WithId(id, store[id]) : id \in Range(ids) \cap DOMAIN store }

\* a write of the transaction of slot r to document id is refused with a
\* write conflict when another open transaction has written the document or
\* the document changed after the transaction read it
WriteConflict(r, student) ==
  \/ \E q \in Slots \ {r} : txn[q] = "active" /\ student._id \in DOMAIN staged[q]
  \/ WithId(student._id, db[student._id]) # student

\* updateOne without the session option: the write goes to the store
updateOneNoSession(r, id, payload) ==
  /\ db' = [db EXCEPT ![id] = ApplySet(db[id], payload)]
  /\ UNCHANGED staged

\* the write made without the _id filter: every document gets the payload
updateEveryDocument(r, id, payload) ==
  /\ staged' = [staged EXCEPT ![r] = [i \in DOMAIN db |-> payload]]
  /\ UNCHANGED db

\* Student.updateOne({ _id }, { $set }, { session }): staged in the session
updateOne(r, id, payload) ==
  /\ staged' = [staged EXCEPT ![r] = (id :> payload) @@ staged[r]]
  /\ UNCHANGED db

\* session.commitTransaction(): every staged write becomes visible at once
commitTransaction(r) ==
  db' = [id \in DOMAIN db |->
           IF id \in DOMAIN staged[r] THEN ApplySet(db[id], staged[r][id]) ELSE db[id]]

\* the catch block committing what was staged instead of aborting
abortTransactionKeeps(r) ==
  db' = [id \in DOMAIN db |->
           IF id \in DOMAIN staged[r] THEN ApplySet(db[id], staged[r][id]) ELSE db[id]]

\* session.abortTransaction(): the staged writes are dropped, the store
\* keeps what it had
abortTransaction(r) == db' = db

(* ---------------------------- handlers -------------------------------- *)
\* an await inside try rejects and the catch block runs: abortTransaction,
\* endSession, 500.  students, promoted / rolledBack and skipped are out of
\* scope there; idx keeps the iteration that threw
Catch(r) ==
  /\ abortTransaction(r)
  /\ txn' = [txn EXCEPT ![r] = "aborted"]
  /\ staged' = [staged EXCEPT ![r] = <<>>]
  /\ status' = [status EXCEPT ![r] = 500]
  /\ pc' = [pc EXCEPT ![r] = "done"]
  /\ students' = [students EXCEPT ![r] = <<>>]
  /\ applied' = [applied EXCEPT ![r] = <<>>]
  /\ skipped' = [skipped EXCEPT ![r] = <<>>]

\* startSession and startTransaction, then studentIds is not a non-empty
\* array: 400 is returned from inside try, nothing ends the transaction
Reject(r) ==
  /\ txn' = [txn EXCEPT ![r] = "active"]
  /\ staged' = [staged EXCEPT ![r] = <<>>]
  /\ status' = [status EXCEPT ![r] = 400]
  /\ pc' = [pc EXCEPT ![r] = "done"]
  /\ students' = [students EXCEPT ![r] = <<>>]
  /\ idx' = [idx EXCEPT ![r] = 1]
  /\ applied' = [applied EXCEPT ![r] = <<>>]
  /\ skipped' = [skipped EXCEPT ![r] = <<>>]
  /\ UNCHANGED db

\* promoteStudentsToNextSemester, from startSession to the end of find
PromoteBegin(r, body, findThrows) ==
  /\ pc[r] = "idle"
  /\ started < MaxReqs
  /\ findThrows => (body.isArray /\ Len(body.ids) > 0)
  /\ req' = [req EXCEPT ![r] = [op |-> "promote", studentIds |-> body,
                                resetAttendance |-> FALSE]]
  /\ started' = started + 1
  /\ IF ~body.isArray \/ Len(body.ids) = 0
     THEN Reject(r)
     ELSE IF findThrows
     THEN Catch(r) /\ idx' = [idx EXCEPT ![r] = 0]
     ELSE \E found \in Orders(FindStudents(db, body.ids)) :
          /\ students' = [students EXCEPT ![r] = found]
          /\ idx' = [idx EXCEPT ![r] = 1]
          /\ txn' = [txn EXCEPT ![r] = "active"]
          /\ staged' = [staged EXCEPT ![r] = <<>>]
          /\ applied' = [applied EXCEPT ![r] = <<>>]
          /\ skipped' = [skipped EXCEPT ![r] = <<>>]
          /\ IF Len(found) = 0
             THEN /\ status' = [status EXCEPT ![r] = 404]
                  /\ pc' = [pc EXCEPT ![r] = "done"]
             ELSE /\ status' = [status EXCEPT ![r] = 0]
                  /\ pc' = [pc EXCEPT ![r] = "loop"]
          /\ UNCHANGED db
  /\ UNCHANGED courses

\* the loop with nextAcademicYear declared once before it: a student whose
\* year is not recomputed gets the label left by the student before
PromoteLoopCarriesYear(r, throws) ==
  /\ pc[r] = "loop"
  /\ req[r].op = "promote"
  /\ idx[r] <= Len(students[r])
  /\ LET student == students[r][idx[r]]
         own == PromoteDecision(student, courses)
         carried == applied[r][Len(applied[r])].academicYear
         d == IF /\ own.kind = "apply"
                 /\ ~IsEven(parseInt(student.semId))
                 /\ Len(applied[r]) > 0
              THEN [own EXCEPT !.set.academicYear = carried,
                               !.entry.academicYear = carried]
              ELSE own
     IN IF throws \/ (d.kind = "apply" /\ WriteConflict(r, student))
        THEN Catch(r) /\ UNCHANGED idx
        ELSE /\ idx' = [idx EXCEPT ![r] = idx[r] + 1]
             /\ IF d.kind = "skip"
                THEN /\ skipped' = [skipped EXCEPT ![r] = Append(skipped[r], d.entry)]
                     /\ UNCHANGED <<applied, staged, db>>
                ELSE /\ updateOne(r, student._id, d.set)
                     /\ applied' = [applied EXCEPT ![r] = Append(applied[r], d.entry)]
                     /\ UNCHANGED skipped
             /\ UNCHANGED <<pc, txn, status, students>>
  /\ UNCHANGED <<courses, req, started>>

\* one iteration of the for loop of promoteStudentsToNextSemester
PromoteLoop(r, throws) ==
  /\ pc[r] = "loop"
  /\ req[r].op = "promote"
  /\ idx[r] <= Len(students[r])
  /\ LET student == students[r][idx[r]]
         d == PromoteDecision(student, courses)
     IN IF throws \/ (d.kind = "apply" /\ WriteConflict(r, student))
        THEN Catch(r) /\ UNCHANGED idx
        ELSE /\ idx' = [idx EXCEPT ![r] = idx[r] + 1]
             /\ IF d.kind = "skip"
                THEN /\ skipped' = [skipped EXCEPT ![r] = Append(skipped[r], d.entry)]
                     /\ UNCHANGED <<applied, staged, db>>
                ELSE /\ updateOne(r, student._id, d.set)
                     /\ applied' = [applied EXCEPT ![r] = Append(applied[r], d.entry)]
                     /\ UNCHANGED skipped
             /\ UNCHANGED <<pc, txn, status, students>>
  /\ UNCHANGED <<courses, req, started>>

\* rollbackStudents, from startSession to the end of find
RollbackBegin(r, body, resetAttendance, findThrows) ==
  /\ pc[r] = "idle"
  /\ started < MaxReqs
  /\ findThrows => (body.isArray /\ Len(body.ids) > 0)
  /\ req' = [req EXCEPT ![r] = [op |-> "rollback", studentIds |-> body,
                                resetAttendance |-> resetAttendance]]
  /\ started' = started + 1
  /\ IF ~body.isArray \/ Len(body.ids) = 0
     THEN Reject(r)
     ELSE IF findThrows
     THEN Catch(r) /\ idx' = [idx EXCEPT ![r] = 0]
     ELSE \E found \in Orders(FindStudents(db, body.ids)) :
          /\ students' = [students EXCEPT ![r] = found]
          /\ idx' = [idx EXCEPT ![r] = 1]
          /\ txn' = [txn EXCEPT ![r] = "active"]
          /\ staged' = [staged EXCEPT ![r] = <<>>]
          /\ applied' = [applied EXCEPT ![r] = <<>>]
          /\ skipped' = [skipped EXCEPT ![r] = <<>>]
          /\ status' = [status EXCEPT ![r] = 0]
          /\ pc' = [pc EXCEPT ![r] = "loop"]
          /\ UNCHANGED db
  /\ UNCHANGED courses

\* one iteration of the for loop of rollbackStudents
RollbackLoop(r, throws) ==
  /\ pc[r] = "loop"
  /\ req[r].op = "rollback"
  /\ idx[r] <= Len(students[r])
  /\ LET student == students[r][idx[r]]
         d == RollbackDecision(student, req[r].resetAttendance)
     IN IF throws \/ (d.kind = "apply" /\ WriteConflict(r, student))
        THEN Catch(r) /\ UNCHANGED idx
        ELSE /\ idx' = [idx EXCEPT ![r] = idx[r] + 1]
             /\ IF d.kind = "skip"
                THEN /\ skipped' = [skipped EXCEPT ![r] = Append(skipped[r], d.entry)]
                     /\ UNCHANGED <<applied, staged, db>>
                ELSE /\ applied' = [applied EXCEPT ![r] = Append(applied[r], d.entry)]
                     /\ updateOne(r, student._id, d.set)
                     /\ UNCHANGED skipped
             /\ UNCHANGED <<pc, txn, status, students>>
  /\ UNCHANGED <<courses, req, started>>

\* after the loop of either handler: commitTransaction, endSession, 200
Commit(r, throws) ==
  /\ pc[r] = "loop"
  /\ idx[r] > Len(students[r])
  /\ IF throws
     THEN Catch(r) /\ UNCHANGED idx
     ELSE /\ commitTransaction(r)
          /\ txn' = [txn EXCEPT ![r] = "committed"]
          /\ staged' = [staged EXCEPT ![r] = <<>>]
          /\ status' = [status EXCEPT ![r] = 200]
          /\ pc' = [pc EXCEPT ![r] = "done"]
          /\ UNCHANGED <<applied, skipped, students, idx>>
  /\ UNCHANGED <<courses, req, started>>

\* the handler has returned its response: the activation and its locals
\* are gone (a transaction it left open stays open on the server)
Return(r) ==
  /\ pc[r] = "done"
  /\ pc' = [pc EXCEPT ![r] = "idle"]
  /\ req' = [req EXCEPT ![r] = NoReq]
  /\ students' = [students EXCEPT ![r] = <<>>]
  /\ idx' = [idx EXCEPT ![r] = 1]
  /\ applied' = [applied EXCEPT ![r] = <<>>]
  /\ skipped' = [skipped EXCEPT ![r] = <<>>]
  /\ staged' = [staged EXCEPT ![r] = <<>>]
  /\ txn' = [txn EXCEPT ![r] = "none"]
  /\ status' = [status EXCEPT ![r] = 0]
  /\ UNCHANGED <<db, courses, started>>

(* -------------------------- specification ----------------------------- *)
Init ==
  /\ db \in Rosters
  /\ courses = (KnownCourse :> TotalSem)
  /\ pc = [r \in Slots |-> "idle"]
  /\ req = [r \in Slots |-> NoReq]
  /\ students = [r \in Slots |-> <<>>]
  /\ idx = [r \in Slots |-> 1]
  /\ applied = [r \in Slots |-> <<>>]
  /\ skipped = [r \in Slots |-> <<>>]
  /\ staged = [r \in Slots |-> <<>>]
  /\ txn = [r \in Slots |-> "none"]
  /\ status = [r \in Slots |-> 0]
  /\ started = 0

Next ==
  \/ \E r \in Slots, body \in Bodies, t \in BOOLEAN : PromoteBegin(r, body, t)
  \/ \E r \in Slots, t \in BOOLEAN : PromoteLoop(r, t)
  \/ \E r \in Slots, body \in Bodies, a \in BOOLEAN, t \in BOOLEAN :
       RollbackBegin(r, body, a, t)
  \/ \E r \in Slots, t \in BOOLEAN : RollbackLoop(r, t)
  \/ \E r \in Slots, t \in BOOLEAN : Commit(r, t)
  \/ \E r \in Slots : Return(r)

Spec == Init /\ [][Next]_vars

\* the collections in which every student is in a semester of the course:
\* the first and the final one, or two in between
RangeRosters ==
  { ("s1" :> Doc(<<"1">>, Year2024, KnownCourse)) @@
    ("s2" :> Doc(NatToString(TotalSem), Year2099, KnownCourse)),
    ("s1" :> Doc(<<"2">>, Year2024, KnownCourse)) @@
    ("s2" :> Doc(NatToString(TotalSem - 1), Year2099, KnownCourse)) }

InitRange ==
  /\ db \in RangeRosters
  /\ courses = (KnownCourse :> TotalSem)
  /\ pc = [r \in Slots |-> "idle"]
  /\ req = [r \in Slots |-> NoReq]
  /\ students = [r \in Slots |-> <<>>]
  /\ idx = [r \in Slots |-> 1]
  /\ applied = [r \in Slots |-> <<>>]
  /\ skipped = [r \in Slots |-> <<>>]
  /\ staged = [r \in Slots |-> <<>>]
  /\ txn = [r \in Slots |-> "none"]
  /\ status = [r \in Slots |-> 0]
  /\ started = 0

\* the handlers over a collection that starts within the semester range
SpecRange == InitRange /\ [][Next]_vars

\* the collections in which s1 is in any semester of the course, with an
\* ordinary or an end-of-century label
TripRosters ==
  { ("s1" :> Doc(NatToString(n), y, KnownCourse)) @@
    ("s2" :> Doc(<<"1">>, Year2024, KnownCourse)) :
      n \in 1..TotalSem, y \in {Year2024, Year2099} }

InitTrip ==
  /\ db \in TripRosters
  /\ courses = (KnownCourse :> TotalSem)
  /\ pc = [r \in Slots |-> "idle"]
  /\ req = [r \in Slots |-> NoReq]
  /\ students = [r \in Slots |-> <<>>]
  /\ idx = [r \in Slots |-> 1]
  /\ applied = [r \in Slots |-> <<>>]
  /\ skipped = [r \in Slots |-> <<>>]
  /\ staged = [r \in Slots |-> <<>>]
  /\ txn = [r \in Slots |-> "none"]
  /\ status = [r \in Slots |-> 0]
  /\ started = 0

\* the requests that name s1 alone
TripBody == [isArray |-> TRUE, ids |-> <<"s1">>]

\* requests for s1 made one after the other: each is sent when the one
\* before has been answered
TripNext ==
  \/ \E t \in BOOLEAN : PromoteBegin("h1", TripBody, t)
  \/ \E t \in BOOLEAN : PromoteLoop("h1", t)
  \/ \E t \in BOOLEAN : RollbackBegin("h1", TripBody, FALSE, t)
  \/ \E t \in BOOLEAN : RollbackLoop("h1", t)
  \/ \E t \in BOOLEAN : Commit("h1", t)
  \/ Return("h1")

SpecTrip == InitTrip /\ [][TripNext]_vars

(* ======================== properties ================================= *)
\* the decimal numeral of a semester number, and the semIds that are one
Numeral(n) == NatToString(n)
SemRange == 0..(TotalSem + 2)
IsSemester(semId) == \E n \in SemRange : Numeral(n) = semId
SemOf(semId) == CHOOSE n \in SemRange : Numeral(n) = semId

\* the label "S-YY" of the academic year that starts in S: YY is
\* (S + 1) mod 100 written with two digits
YearLabel(S) ==
  Numeral(S) \o <<"-">> \o
  << Digits[(((S + 1) % 100) \div 10) + 1], Digits[((S + 1) % 10) + 1] >>
\* the start year of a label of four-digit years
StartYear(label) == DigitsValue(SubSeq(label, 1, 4), 0)

Odd(n) == n % 2 = 1
Even(n) == n % 2 = 0

\* the step of slot r that commits its batch
Commits(r) == pc[r] = "loop" /\ pc'[r] = "done" /\ status'[r] = 200
\* the step of slot r that ends in the catch block
Fails(r) == pc[r] \in {"idle", "loop"} /\ pc'[r] = "done" /\ status'[r] = 500
\* an iteration of the loop of slot r that went through
Iterates(r) == pc[r] = "loop" /\ pc'[r] = "loop" /\ idx'[r] = idx[r] + 1

IsPromote(r) == req[r].op = "promote"
IsNormalRollback(r) == req[r].op = "rollback" /\ ~req[r].resetAttendance
IsResetRollback(r) == req[r].op = "rollback" /\ req[r].resetAttendance

Entries(list, id) == { k \in 1..Len(list) : list[k].studentId = id }

\* C1: a committed promotion writes semester s + 1 for every student of the
\* batch whose course exists and whose semester s is below the course's
\* No_of_Sem; it keeps the academicYear when s is odd and writes the label
\* of the following year when s is even.
AdvanceStepRule ==
  [][\A r \in Slots : (Commits(r) /\ IsPromote(r)) =>
       \A k \in 1..Len(students[r]) :
         LET st == students[r][k] IN
         (/\ st.courseId \in DOMAIN courses
          /\ IsSemester(st.semId)
          /\ SemOf(st.semId) < courses[st.courseId]) =>
           /\ db'[st._id].semId = Numeral(SemOf(st.semId) + 1)
           /\ Odd(SemOf(st.semId)) => db'[st._id].academicYear = st.academicYear
           /\ Even(SemOf(st.semId)) =>
                db'[st._id].academicYear = YearLabel(StartYear(st.academicYear) + 1)
    ]_vars

\* C1 witness: a promotion has committed for a student in an even semester
\* and the store holds the next semester and the next year's label.
AdvanceStepWitness ==
  \E r \in Slots : \E k \in 1..Len(students[r]) :
    LET st == students[r][k] IN
    /\ status[r] = 200 /\ IsPromote(r)
    /\ Entries(applied[r], st._id) # {}
    /\ IsSemester(st.semId) /\ Even(SemOf(st.semId))
    /\ db[st._id].semId = Numeral(SemOf(st.semId) + 1)
    /\ db[st._id].academicYear = YearLabel(StartYear(st.academicYear) + 1)
    /\ db[st._id].academicYear # st.academicYear

\* C2: when a promotion was applied to a student and a normal rollback is
\* then applied to the document the promotion wrote, the rollback writes
\* back the (semester, academicYear) the student had before the promotion.
RoundTripLaw ==
  \A p \in Slots, q \in Slots :
    (p # q /\ status[p] = 200 /\ IsPromote(p) /\ status[q] = 200 /\ IsNormalRollback(q)) =>
      \A i \in 1..Len(applied[p]), j \in 1..Len(applied[q]) :
        \A k \in 1..Len(students[p]) :
          LET before == students[p][k]
              up == applied[p][i]
              down == applied[q][j]
          IN (/\ before._id = up.studentId
              /\ down.studentId = up.studentId
              /\ down.fromSem = Numeral(up.toSem)
              /\ down.academicYearFrom = up.academicYear) =>
               /\ down.toSem = before.semId
               /\ down.academicYearTo = before.academicYear

\* C3: a batch that ends in the catch block never changed the store: none of
\* its iterations writes the store, the failing step leaves the store as it
\* is, ends the transaction as aborted with nothing staged, and answers 500
\* with no promoted / rolledBack / skipped list.
AbortedBatchKeepsStore ==
  [][\A r \in Slots :
       /\ Iterates(r) => db' = db
       /\ Fails(r) =>
            /\ db' = db
            /\ txn'[r] = "aborted"
            /\ staged'[r] = <<>>
            /\ applied'[r] = <<>> /\ skipped'[r] = <<>>
    ]_vars

\* C3 witness: a promotion of s1 and s2, both of which it would promote,
\* threw in its second iteration or at the commit, after a write was staged;
\* the request is answered 500 and both documents are still unpromoted.
AbortedBatchWitness ==
  \E r \in Slots :
    /\ status[r] = 500 /\ txn[r] = "aborted" /\ IsPromote(r)
    /\ req[r].studentIds.ids = <<"s1", "s2">>
    /\ idx[r] >= 2
    /\ \A id \in Ids : PromoteDecision(WithId(id, db[id]), courses).kind = "apply"
    /\ db \in Rosters

\* C4: in every 200 response each id of the request's studentIds is in
\* exactly one of the applied list and the skipped list.
ExhaustivePartition ==
  \A r \in Slots : status[r] = 200 =>
    \A k \in 1..Len(req[r].studentIds.ids) :
      LET id == req[r].studentIds.ids[k] IN
      Cardinality(Entries(applied[r], id)) + Cardinality(Entries(skipped[r], id)) = 1

\* the students of the batch of slot r that are in their final semester
InFinalSemester(st) ==
  /\ st.courseId \in DOMAIN courses
  /\ IsSemester(st.semId)
  /\ SemOf(st.semId) >= courses[st.courseId]

FinalSkipState ==
  \A r \in Slots : (IsPromote(r) /\ (pc[r] = "loop" \/ status[r] = 200)) =>
    /\ \A k \in 1..Len(students[r]) :
         (k < idx[r] /\ InFinalSemester(students[r][k])) =>
           /\ \E j \in Entries(skipped[r], students[r][k]._id) :
                skipped[r][j].reason = "Final semester"
           /\ Entries(applied[r], students[r][k]._id) = {}
           /\ students[r][k]._id \notin DOMAIN staged[r]
    /\ status[r] = 200 => Len(applied[r]) + Len(skipped[r]) = Len(students[r])

\* C5: a promotion records every student whose semester is at or above the
\* No_of_Sem of their course in skipped with reason "Final semester", stages
\* no write for them, goes on with the rest of the batch, and its commit
\* leaves their documents as they were.
FinalSemesterSkip ==
  [][/\ FinalSkipState'
     /\ \A r \in Slots : (Commits(r) /\ IsPromote(r)) =>
          \A k \in 1..Len(students[r]) :
            InFinalSemester(students[r][k]) =>
              db'[students[r][k]._id] = db[students[r][k]._id]
    ]_vars

\* C5 witness: a committed promotion of two students skipped one as final
\* and promoted the other.
FinalSemesterWitness ==
  \E r \in Slots :
    /\ status[r] = 200 /\ IsPromote(r)
    /\ Len(students[r]) = 2 /\ Len(applied[r]) = 1
    /\ \E k \in 1..2 :
         /\ InFinalSemester(students[r][k])
         /\ db[students[r][k]._id].semId = students[r][k].semId
         /\ \E j \in Entries(skipped[r], students[r][k]._id) :
              skipped[r][j].reason = "Final semester"

InFirstSemester(st) == IsSemester(st.semId) /\ SemOf(st.semId) <= 1

FirstSkipState ==
  \A r \in Slots : (IsNormalRollback(r) /\ (pc[r] = "loop" \/ status[r] = 200)) =>
    \A k \in 1..Len(students[r]) :
      (k < idx[r] /\ InFirstSemester(students[r][k])) =>
        /\ \E j \in Entries(skipped[r], students[r][k]._id) :
             skipped[r][j].reason = "Already in first semester"
        /\ Entries(applied[r], students[r][k]._id) = {}
        /\ students[r][k]._id \notin DOMAIN staged[r]

\* C6: a normal rollback records every student whose semester is 1 or less
\* in skipped with reason "Already in first semester", stages no write for
\* them, and its commit leaves their documents as they were.
FirstSemesterSkip ==
  [][/\ FirstSkipState'
     /\ \A r \in Slots : (Commits(r) /\ IsNormalRollback(r)) =>
          \A k \in 1..Len(students[r]) :
            InFirstSemester(students[r][k]) =>
              db'[students[r][k]._id] = db[students[r][k]._id]
    ]_vars

\* C6 witness: a committed normal rollback skipped a student of semester 1
\* and the document still holds semester 1.
FirstSemesterWitness ==
  \E r \in Slots : \E k \in 1..Len(students[r]) :
    /\ status[r] = 200 /\ IsNormalRollback(r)
    /\ students[r][k].semId = <<"1">>
    /\ db[students[r][k]._id].semId = <<"1">>
    /\ db[students[r][k]._id].academicYear = students[r][k].academicYear
    /\ \E j \in Entries(skipped[r], students[r][k]._id) :
         skipped[r][j].reason = "Already in first semester"

\* C7: a committed normal rollback writes semester s - 1 for every student
\* of the batch whose semester s is above 1, writes the label of the
\* preceding year when s is even and keeps the academicYear when s is odd,
\* and reports the student as NORMAL_ROLLBACK.
RollbackStepRule ==
  [][\A r \in Slots : (Commits(r) /\ IsNormalRollback(r)) =>
       \A k \in 1..Len(students[r]) :
         LET st == students[r][k] IN
         (IsSemester(st.semId) /\ SemOf(st.semId) > 1) =>
           /\ db'[st._id].semId = Numeral(SemOf(st.semId) - 1)
           /\ Even(SemOf(st.semId)) =>
                db'[st._id].academicYear = YearLabel(StartYear(st.academicYear) - 1)
           /\ Odd(SemOf(st.semId)) => db'[st._id].academicYear = st.academicYear
           /\ \E j \in Entries(applied[r], st._id) :
                /\ applied[r][j].type = "NORMAL_ROLLBACK"
                /\ applied[r][j].toSem = db'[st._id].semId
                /\ applied[r][j].academicYearTo = db'[st._id].academicYear
    ]_vars

\* C7 witness: a normal rollback has committed for a student in an even
\* semester above 1 and the store holds the preceding semester and year.
RollbackStepWitness ==
  \E r \in Slots : \E k \in 1..Len(students[r]) :
    LET st == students[r][k] IN
    /\ status[r] = 200 /\ IsNormalRollback(r)
    /\ IsSemester(st.semId) /\ SemOf(st.semId) > 1 /\ Even(SemOf(st.semId))
    /\ db[st._id].semId = Numeral(SemOf(st.semId) - 1)
    /\ db[st._id].academicYear = YearLabel(StartYear(st.academicYear) - 1)
    /\ db[st._id].academicYear # st.academicYear

\* C8 as claimed: a committed rollback with resetAttendance = true reports
\* every student of the batch, whatever the semId, as RESET_YEAR_ONLY with
\* the semester kept and the academicYear advanced by one year.
ResetYearForAnyState ==
  \A r \in Slots : (status[r] = 200 /\ IsResetRollback(r)) =>
    \A k \in 1..Len(students[r]) :
      LET st == students[r][k] IN
      \E j \in Entries(applied[r], st._id) :
        /\ applied[r][j].type = "RESET_YEAR_ONLY"
        /\ applied[r][j].sem = st.semId
        /\ applied[r][j].academicYearTo = YearLabel(StartYear(st.academicYear) + 1)

\* C8 as amended: a committed rollback with resetAttendance = true keeps the
\* semId and writes the label of the following year, reported as
\* RESET_YEAR_ONLY, for every student whose semId is a number, of either
\* parity; a student whose semId is not a number is skipped with reason
\* "Invalid semester value" and its document is left as it was.
ResetYearRule ==
  [][\A r \in Slots : (Commits(r) /\ IsResetRollback(r)) =>
       \A k \in 1..Len(students[r]) :
         LET st == students[r][k] IN
         IF IsSemester(st.semId)
         THEN /\ db'[st._id].semId = st.semId
              /\ db'[st._id].academicYear = YearLabel(StartYear(st.academicYear) + 1)
              /\ \E j \in Entries(applied[r], st._id) :
                   /\ applied[r][j].type = "RESET_YEAR_ONLY"
                   /\ applied[r][j].academicYearTo = db'[st._id].academicYear
         ELSE /\ db'[st._id] = db[st._id]
              /\ \E j \in Entries(skipped[r], st._id) :
                   skipped[r][j].reason = "Invalid semester value"
    ]_vars

\* C8 witness: a reset rollback has committed for a student in an odd
\* semester: the semId is kept and the store holds the next year's label.
ResetYearWitness ==
  \E r \in Slots : \E k \in 1..Len(students[r]) :
    LET st == students[r][k] IN
    /\ status[r] = 200 /\ IsResetRollback(r)
    /\ IsSemester(st.semId) /\ Odd(SemOf(st.semId))
    /\ db[st._id].semId = st.semId
    /\ db[st._id].academicYear = YearLabel(StartYear(st.academicYear) + 1)

\* a write staged by an open transaction does not show in the store
StagedInvisible ==
  \A r \in Slots : pc[r] = "loop" =>
    \A k \in 1..Len(students[r]) :
      students[r][k]._id \in DOMAIN staged[r] =>
        WithId(students[r][k]._id, db[students[r][k]._id]) = students[r][k]

\* C9: what a reader outside the transactions sees changes only in the step
\* in which a batch commits, and then to the values of all of the writes of
\* that batch at once; until then none of the staged writes shows.
ReadersSeeWholeBatches ==
  [][/\ StagedInvisible'
     /\ db' # db =>
          \E r \in Slots :
            /\ Commits(r)
            /\ \A id \in Ids :
                 db'[id] = IF id \in DOMAIN staged[r]
                           THEN ApplySet(db[id], staged[r][id])
                           ELSE db[id]
    ]_vars

\* C9 witness: a batch of two students has staged the write of one of them,
\* the other is still to be processed, and the store shows neither write.
PartlyStagedWitness ==
  \E r \in Slots :
    /\ pc[r] = "loop" /\ Len(students[r]) = 2 /\ idx[r] = 2
    /\ Cardinality(DOMAIN staged[r]) = 1
    /\ \A id \in DOMAIN staged[r] : ApplySet(db[id], staged[r][id]) # db[id]

\* C10: a request answered 400 has opened no session and no transaction.
RejectedBeforeTransaction ==
  \A r \in Slots : status[r] = 400 => txn[r] = "none"

\* C11: a request of either handler is answered 200 only when at least one
\* of its studentIds resolved to a student document; when none resolved the
\* answer is 404.
UnresolvedBatchIs404 ==
  \A r \in Slots :
    /\ status[r] = 200 => Len(students[r]) > 0
    /\ (pc[r] = "done" /\ req[r].studentIds.isArray
        /\ Len(req[r].studentIds.ids) > 0
        /\ status[r] # 500 /\ Len(students[r]) = 0) => status[r] = 404

\* a label "YYYY-YY" whose suffix is (start year + 1) mod 100 in two digits
WellFormedYear(label) ==
  /\ Len(label) = 7
  /\ \A i \in {1, 2, 3, 4, 6, 7} : IsDigit(label[i])
  /\ label[5] = "-"
  /\ label = YearLabel(StartYear(label))

\* C12: the academicYear of every student document is a well-formed label
\* "S-YY" with YY = (S + 1) mod 100 in two digits, whatever promotions,
\* normal rollbacks and reset-year rollbacks have committed, also when a
\* label crosses a century.
YearLabelsWellFormed ==
  \A id \in Ids : WellFormedYear(db[id].academicYear)

\* C12 witness: a committed promotion has taken a student from the label
\* "2099-00" to "2100-01".
CenturyCrossedWitness ==
  \E r \in Slots : \E k \in 1..Len(students[r]) :
    /\ status[r] = 200 /\ IsPromote(r)
    /\ students[r][k].academicYear = Year2099
    /\ Entries(applied[r], students[r][k]._id) # {}
    /\ db[students[r][k]._id].academicYear = <<"2", "1", "0", "0", "-", "0", "1">>

\* the last two digits of n
TwoDigits(n) == << Digits[((n % 100) \div 10) + 1], Digits[(n % 10) + 1] >>

\* C13 as claimed: when a normal rollback regresses the label "S-YY" of a
\* student, the new label is "(S-1)-ZZ" with ZZ the last two digits of S + 1.
BackwardLabelSuffixOfNext ==
  \A r \in Slots : (status[r] = 200 /\ IsNormalRollback(r)) =>
    \A j \in 1..Len(applied[r]) :
      LET e == applied[r][j]
          S == StartYear(e.academicYearFrom)
      IN e.academicYearTo # e.academicYearFrom =>
           e.academicYearTo = Numeral(S - 1) \o <<"-">> \o TwoDigits(S + 1)

\* C13 as amended: when a normal rollback regresses the label "S-YY" of a
\* student (the semester is even and above 1), the label it commits and
\* reports is "(S-1)-ZZ" with ZZ the last two digits of S.
BackwardLabelRule ==
  [][\A r \in Slots : (Commits(r) /\ IsNormalRollback(r)) =>
       \A k \in 1..Len(students[r]) :
         LET st == students[r][k]
             S == StartYear(st.academicYear)
         IN (IsSemester(st.semId) /\ SemOf(st.semId) > 1 /\ Even(SemOf(st.semId))) =>
              /\ db'[st._id].academicYear = Numeral(S - 1) \o <<"-">> \o TwoDigits(S)
              /\ \E j \in Entries(applied[r], st._id) :
                   /\ applied[r][j].academicYearFrom = st.academicYear
                   /\ applied[r][j].academicYearTo =
                        Numeral(S - 1) \o <<"-">> \o TwoDigits(S)
    ]_vars

\* C13 witness: a committed normal rollback has regressed a label of the
\* year 2100 to "2099-00".
BackwardLabelWitness ==
  \E r \in Slots : \E j \in 1..Len(applied[r]) :
    /\ status[r] = 200 /\ IsNormalRollback(r)
    /\ StartYear(applied[r][j].academicYearFrom) = 2100
    /\ applied[r][j].academicYearTo = Year2099
    /\ db[applied[r][j].studentId].academicYear = Year2099

\* the semIds that are the numeral of a positive integer
PositiveSemester(semId) == IsSemester(semId) /\ SemOf(semId) >= 1

\* C14: a promotion skips every student of the batch whose course exists
\* and whose semId is not a positive integer (text that is no number, zero
\* or a negative number) with reason "Invalid semester" and writes nothing
\* for them.
NonPositiveSemesterSkipped ==
  \A r \in Slots : (status[r] = 200 /\ IsPromote(r)) =>
    \A k \in 1..Len(students[r]) :
      LET st == students[r][k] IN
      (st.courseId \in DOMAIN courses /\ ~PositiveSemester(st.semId)) =>
        /\ \E j \in Entries(skipped[r], st._id) :
             skipped[r][j].reason = "Invalid semester"
        /\ Entries(applied[r], st._id) = {}

\* C15: when a handler has sent its response, the transaction it opened
\* has been committed or aborted: none is still open, whether the answer is
\* 200, 400, 404 or 500.
TransactionClosedAtResponse ==
  \A r \in Slots :
    (pc[r] = "done" /\ status[r] \in {200, 400, 404, 500}) =>
      txn[r] \in {"committed", "aborted"}

\* what the request of slot r is to do with student st, told from the
\* document of st and the No_of_Sem of its course alone
Kept(st, reason) ==
  [applied |-> FALSE, reason |-> reason, semId |-> st.semId,
   academicYear |-> st.academicYear]
Moved(semId, academicYear) ==
  [applied |-> TRUE, reason |-> "", semId |-> semId, academicYear |-> academicYear]
Outcome(r, st) ==
  LET s == SemOf(st.semId)
      S == StartYear(st.academicYear)
  IN IF IsPromote(r)
     THEN IF st.courseId \notin DOMAIN courses THEN Kept(st, "Course not found")
          ELSE IF ~IsSemester(st.semId) THEN Kept(st, "Invalid semester")
          ELSE IF s >= courses[st.courseId] THEN Kept(st, "Final semester")
          ELSE Moved(Numeral(s + 1),
                     IF Even(s) THEN YearLabel(S + 1) ELSE st.academicYear)
     ELSE IF ~IsSemester(st.semId) THEN Kept(st, "Invalid semester value")
          ELSE IF req[r].resetAttendance THEN Moved(st.semId, YearLabel(S + 1))
          ELSE IF s <= 1 THEN Kept(st, "Already in first semester")
          ELSE Moved(Numeral(s - 1),
                     IF Even(s) THEN YearLabel(S - 1) ELSE st.academicYear)

\* C16: in a promotion and in a rollback, whether a student is applied or
\* skipped, the skip reason and the semester and academicYear written are
\* given by that student's own document and the No_of_Sem of the course,
\* in every order in which the batch is processed: an iteration adds the
\* one entry and stages the one write that Outcome gives and touches
\* nothing staged for another student; the commit writes these values and
\* leaves the skipped students as they are.
OrderIndependence ==
  [][\A r \in Slots :
       /\ Iterates(r) =>
            LET st == students[r][idx[r]]
                o == Outcome(r, st)
            IN IF o.applied
               THEN /\ skipped'[r] = skipped[r]
                    /\ Len(applied'[r]) = Len(applied[r]) + 1
                    /\ SubSeq(applied'[r], 1, Len(applied[r])) = applied[r]
                    /\ applied'[r][Len(applied'[r])].studentId = st._id
                    /\ DOMAIN staged'[r] = DOMAIN staged[r] \cup {st._id}
                    /\ \A i \in DOMAIN staged[r] \ {st._id} :
                         staged'[r][i] = staged[r][i]
                    /\ ApplySet(st, staged'[r][st._id]).semId = o.semId
                    /\ ApplySet(st, staged'[r][st._id]).academicYear = o.academicYear
               ELSE /\ applied'[r] = applied[r]
                    /\ staged'[r] = staged[r]
                    /\ skipped'[r] =
                         Append(skipped[r], [studentId |-> st._id, reason |-> o.reason])
       /\ Commits(r) =>
            \A k \in 1..Len(students[r]) :
              LET st == students[r][k]
                  o == Outcome(r, st)
              IN IF o.applied
                 THEN /\ db'[st._id].semId = o.semId
                      /\ db'[st._id].academicYear = o.academicYear
                 ELSE db'[st._id] = db[st._id]
    ]_vars

\* C16 witness: a committed batch has processed s2 before s1, the reverse
\* of the order of the request, and applied both.
ReverseOrderWitness ==
  \E r \in Slots :
    /\ status[r] = 200 /\ Len(students[r]) = 2 /\ Len(applied[r]) = 2
    /\ req[r].studentIds.ids = <<"s1", "s2">>
    /\ students[r][1]._id = "s2" /\ students[r][2]._id = "s1"
    /\ students[r][1].semId # students[r][2].semId

\* C17: no step of a promotion or a rollback creates or deletes a student
\* document or changes a courseId or the No_of_Sem of a course; a batch that
\* ends in the catch block changes no document; a batch that commits leaves
\* the semId and academicYear of every student outside its studentIds and
\* of every student it reports as skipped as they were.
EngineFrame ==
  [][/\ DOMAIN db' = DOMAIN db
     /\ courses' = courses
     /\ \A id \in DOMAIN db :
          /\ DOMAIN db'[id] = DOMAIN db[id]
          /\ db'[id].courseId = db[id].courseId
     /\ \A r \in Slots :
          /\ Fails(r) => db' = db
          /\ Commits(r) =>
               \A id \in DOMAIN db :
                 (\/ id \notin Range(req[r].studentIds.ids)
                  \/ Entries(skipped[r], id) # {}) =>
                   /\ db'[id].semId = db[id].semId
                   /\ db'[id].academicYear = db[id].academicYear
    ]_vars

\* C17 witness: a batch of s1 and s2 has committed with one of them applied
\* and the other skipped, and the skipped document is as the batch read it.
EngineFrameWitness ==
  \E r \in Slots :
    /\ status[r] = 200
    /\ req[r].studentIds.ids = <<"s1", "s2">>
    /\ Len(applied[r]) = 1 /\ Len(skipped[r]) = 1
    /\ db[applied[r][1].studentId].academicYear #
         students[r][CHOOSE k \in 1..2 :
                       students[r][k]._id = applied[r][1].studentId].academicYear
    /\ \E k \in 1..2 :
         /\ students[r][k]._id = skipped[r][1].studentId
         /\ WithId(students[r][k]._id, db[students[r][k]._id]) = students[r][k]

\* C18: when every student starts in a semester from 1 to the No_of_Sem of
\* their course, every stored semId stays a semester from 1 to No_of_Sem,
\* whatever promotions, normal rollbacks and reset-year rollbacks run,
\* interleaved and over the same students, commit or abort.
SemesterInRange ==
  \A id \in Ids :
    /\ db[id].courseId \in DOMAIN courses
    /\ IsSemester(db[id].semId)
    /\ 1 <= SemOf(db[id].semId)
    /\ SemOf(db[id].semId) <= courses[db[id].courseId]

\* C18 witness: two batches over the same student were open at the same
\* time; one has committed its write, the other was refused its write and
\* aborted, and the student is in the final semester.
OverlappingBatchesWitness ==
  \E p \in Slots, q \in Slots : \E id \in Ids :
    /\ p # q
    /\ status[p] = 200 /\ Entries(applied[p], id) # {}
    /\ status[q] = 500 /\ txn[q] = "aborted" /\ idx[q] >= 1
    /\ id \in Range(req[q].studentIds.ids)
    /\ SemOf(db[id].semId) = courses[db[id].courseId]
    /\ db \notin RangeRosters

\* a catalog whose course is long enough for MaxTrip promotions from any
\* semester of the collection
TripCatalog == (KnownCourse :> TotalSem + MaxTrip)

\* student st after n promotions in a row, each decided by the loop body of
\* promoteStudentsToNextSemester; ok tells that none of them was a skip
RECURSIVE Advanced(_, _, _)
Advanced(st, crs, n) ==
  IF n = 0 THEN [ok |-> TRUE, st |-> st]
  ELSE LET d == PromoteDecision(st, crs)
       IN IF d.kind = "skip" THEN [ok |-> FALSE, st |-> st]
          ELSE Advanced(ApplySet(st, d.set), crs, n - 1)

\* student st after n normal rollbacks in a row, each decided by the loop
\* body of rollbackStudents
RECURSIVE RolledBack(_, _)
RolledBack(st, n) ==
  IF n = 0 THEN [ok |-> TRUE, st |-> st]
  ELSE LET d == RollbackDecision(st, FALSE)
       IN IF d.kind = "skip" THEN [ok |-> FALSE, st |-> st]
          ELSE RolledBack(ApplySet(st, d.set), n - 1)

\* C19: for every student document of the collection and every even k from
\* 2 to MaxTrip, k promotions in a row followed by k normal rollbacks in a
\* row, all of them applied, give back the semId and the academicYear the
\* student started with.
EvenRoundTrip ==
  \A id \in Ids : \A k \in 2..MaxTrip : Even(k) =>
    LET st == WithId(id, db[id])
        up == Advanced(st, TripCatalog, k)
        down == RolledBack(up.st, k)
    IN (up.ok /\ down.ok) =>
         /\ down.st.semId = st.semId
         /\ down.st.academicYear = st.academicYear

\* C19 witness: two promotions of s1 have committed one after the other,
\* from semester 1 to semester 3 and into the next academic year, and two
\* normal rollbacks from there are both applied and lead back to semester 1
\* and the first year.
EvenRoundTripWitness ==
  \E r \in Slots :
    LET now == WithId("s1", db["s1"])
        down == RolledBack(now, 2)
    IN /\ started = 2 /\ status[r] = 200 /\ IsPromote(r)
       /\ Entries(applied[r], "s1") # {}
       /\ now.semId = <<"3">>
       /\ StartYear(now.academicYear) = 2025
       /\ down.ok
       /\ down.st.semId = <<"1">>
       /\ down.st.academicYear = Year2024
       /\ \E first \in TripRosters :
            /\ first["s1"].semId = <<"1">>
            /\ Advanced(WithId("s1", first["s1"]), courses, 2).st = now

====
